---- MODULE Spec2Model ----
(***************************************************************************)
(* The single-core task scheduler of eduOS-rs (src/scheduler/scheduler.rs) *)
(* as a state machine.  A TCB lives in `heap` at the slot of its TaskId    *)
(* (the Box a Shared<Task> points to); `tasks` is the key set of the       *)
(* BTreeMap registry.  Dropping a TCB removes its key and empties the slot, *)
(* so a pointer kept after the drop is dangling: using it either faults or *)
(* reads what the slot holds by then (nothing, or a TCB allocated since).  *)
(* reschedule is split at the points the source separates: cleanup_tasks,  *)
(* get_next_task, the bookkeeping of schedule, and the call of switch.     *)
(***************************************************************************)
EXTENDS Integers, Sequences, FiniteSets, TLC

\* ---------------------------------------------------------------- sizes
\* width in bits of the wrapping TID_COUNTER (an AtomicUsize in the source;
\* narrowed so that the counter wraps within the model)
TidBits == 2
\* number of priority levels (consts::NO_PRIORITIES, scaled down)
NO_PRIORITIES == 2
\* most TCBs registered at once, the idle task included
MaxTasks == 3

\* most entries in all ready queues together: a TCB can be queued twice, so
\* the count is capped where spawn and wakeup_task add one
MaxQueued == MaxTasks - 1

TidModulus == 2 ^ TidBits
TaskIds == 0 .. (TidModulus - 1)
Priorities == 0 .. (NO_PRIORITIES - 1)
\* the idle task's level: the numerically largest one
LOW_PRIO == NO_PRIORITIES - 1
\* the default level of ordinary tasks
NORMAL_PRIO == NO_PRIORITIES - 2

\* ---------------------------------------------------------------- TaskStatus
TaskInvalid == "Invalid"
TaskReady == "Ready"
TaskRunning == "Running"
TaskBlocked == "Blocked"
TaskFinished == "Finished"
TaskIdle == "Idle"
\* a heap slot no TCB was ever allocated in
Unallocated == "Unallocated"

\* values of Task::last_stack_pointer: zero, the frame create_stack_frame
\* builds for the entry function, a context saved by switch
NullSp == "null"
EntryFrame == "entry"
SavedContext == "saved"

VARIABLES
    current_tid,     \* Scheduler::current_tid
    idle_tid,        \* Scheduler::idle_tid
    TID_COUNTER,     \* the global id counter
    tasks,           \* keys of Scheduler::tasks
    heap,            \* the TCBs, by the id they were allocated for
    ready_queues,    \* Scheduler::ready_queues
    finished_tasks,  \* Scheduler::finished_tasks
    pc,              \* where the task on the CPU stands
    old_id,          \* schedule's local old_id
    next,            \* what get_next_task returned to schedule
    exited,          \* ids whose task called exit and whose TCB was neither
                     \* dropped nor reused since (history)
    held             \* the spinlocks whose guard is alive

vars == <<current_tid, idle_tid, TID_COUNTER, tasks, heap, ready_queues,
          finished_tasks, pc, old_id, next, exited, held>>

\* the three spinlocks of the scheduler
Locks == {"tasks", "ready_queues", "finished_tasks"}

\* lock() returns only for a lock nobody holds; it spins otherwise
CanLock(locks) == held \cap locks = {}

NoTask == [status |-> Unallocated, prio |-> 0, last_stack_pointer |-> NullSp]
NoNext == [kind |-> "none", id |-> 0, level |-> 0]

\* Task::new(id, status, prio)
NewTask(status, prio) ==
    [status |-> status, prio |-> prio, last_stack_pointer |-> NullSp]

\* Task::create_stack_frame: the saved stack pointer designates a fresh frame
\* that returns into the entry function
CreateStackFrame(task) == [task EXCEPT !.last_stack_pointer = EntryFrame]

\* TaskQueue::push_back and TaskQueue::pop_front
PushBack(q, id) == Append(q, id)
PopFront(q) == Tail(q)
Front(q) == Head(q)

\* number of entries of a sequence equal to id
RECURSIVE Count(_, _)
Count(q, id) ==
    IF q = <<>> THEN 0
    ELSE (IF Head(q) = id THEN 1 ELSE 0) + Count(Tail(q), id)

\* entries of the ready queues of levels 0 .. level
RECURSIVE QueuedUpTo(_, _)
QueuedUpTo(queues, level) ==
    IF level < 0 THEN 0 ELSE Len(queues[level]) + QueuedUpTo(queues, level - 1)

Queued(queues) == QueuedUpTo(queues, NO_PRIORITIES - 1)

\* get_tid without the retry on a registered key
GetTidUnchecked(counter, keys) ==
    [id |-> counter, counter |-> (counter + 1) % TidModulus]

\* get_tid: fetch_add on the wrapping counter until the value is no key
RECURSIVE GetTid(_, _)
GetTid(counter, keys) ==
    IF counter \notin keys
    THEN [id |-> counter, counter |-> (counter + 1) % TidModulus]
    ELSE GetTid((counter + 1) % TidModulus, keys)

\* add_idle_task, run once by init on the fresh scheduler
Init ==
    /\ idle_tid = GetTid(0, {}).id
    /\ current_tid = idle_tid
    /\ TID_COUNTER = GetTid(0, {}).counter
    /\ tasks = {idle_tid}
    /\ heap = [id \in TaskIds |->
                 IF id = idle_tid THEN NewTask(TaskIdle, LOW_PRIO) ELSE NoTask]
    /\ ready_queues = [p \in Priorities |-> <<>>]
    /\ finished_tasks = <<>>
    /\ pc = "run"
    /\ old_id = 0
    /\ next = NoNext
    /\ exited = {}
    /\ held = {}

\* a panic!() or a failed unwrap(): the kernel halts
Panic(why) ==
    /\ pc' = why
    /\ UNCHANGED <<current_tid, idle_tid, held, TID_COUNTER, tasks, heap, ready_queues,
                   finished_tasks, old_id, next, exited>>

\* the new TCB of spawn's fresh-allocation path
SpawnFresh(prio) ==
    LET got == GetTid(TID_COUNTER, tasks)
        task == CreateStackFrame(NewTask(TaskReady, prio))
    IN  /\ TID_COUNTER' = got.counter
        /\ heap' = [heap EXCEPT ![got.id] = task]
        /\ ready_queues' = [ready_queues EXCEPT ![prio] = PushBack(@, got.id)]
        /\ tasks' = tasks \cup {got.id}
        /\ UNCHANGED <<finished_tasks, exited, pc>>

\* the reset of a finished TCB on spawn's reuse path
ResetTask(task, prio) ==
    CreateStackFrame([status |-> TaskReady, prio |-> prio,
                      last_stack_pointer |-> NullSp])

SpawnReuse(prio) ==
    LET tid == Front(finished_tasks)
    IN  /\ finished_tasks' = PopFront(finished_tasks)
        /\ IF tid \in tasks
           THEN /\ heap' = [heap EXCEPT ![tid] = ResetTask(@, prio)]
                /\ ready_queues' = [ready_queues EXCEPT ![prio] = PushBack(@, tid)]
                /\ exited' = exited \ {tid}
                /\ pc' = pc
           ELSE /\ pc' = "panic: didn't find task"
                /\ UNCHANGED <<heap, ready_queues, exited>>
        /\ UNCHANGED <<TID_COUNTER, tasks>>

\* spawn(func, prio), called by the task on the CPU
Spawn(prio) ==
    /\ pc = "run"
    /\ CanLock({"finished_tasks", "tasks", "ready_queues"})
    /\ Queued(ready_queues) < MaxQueued
    /\ IF finished_tasks = <<>>
       THEN Cardinality(tasks) < MaxTasks /\ SpawnFresh(prio)
       ELSE SpawnReuse(prio)
    /\ UNCHANGED <<current_tid, idle_tid, held, old_id, next>>

\* exit without the test for the idle task
ExitAnyTask ==
    /\ pc = "run"
    /\ CanLock({"tasks"})
    /\ current_tid \in tasks
    /\ heap' = [heap EXCEPT ![current_tid].status = TaskFinished]
    /\ exited' = exited \cup {current_tid}
    /\ pc' = "cleanup"
    /\ UNCHANGED <<current_tid, idle_tid, held, TID_COUNTER, tasks,
                   ready_queues, finished_tasks, old_id, next>>

\* exit, up to its call of reschedule
Exit ==
    /\ pc = "run"
    /\ CanLock({"tasks"})
    /\ IF current_tid \in tasks
       THEN IF heap[current_tid].status # TaskIdle
            THEN /\ heap' = [heap EXCEPT ![current_tid].status = TaskFinished]
                 /\ exited' = exited \cup {current_tid}
                 /\ pc' = "cleanup"
                 /\ UNCHANGED <<current_tid, idle_tid, held, TID_COUNTER, tasks,
                                ready_queues, finished_tasks, old_id, next>>
            ELSE Panic("panic: unable to terminate idle task")
       ELSE /\ pc' = "cleanup"
            /\ UNCHANGED <<current_tid, idle_tid, held, TID_COUNTER, tasks, heap,
                           ready_queues, finished_tasks, old_id, next, exited>>

\* block_current_task without the test for TaskRunning
BlockAnyStatus ==
    /\ pc = "run"
    /\ CanLock({"tasks"})
    /\ IF current_tid \in tasks
       THEN /\ heap' = [heap EXCEPT ![current_tid].status = TaskBlocked]
            /\ UNCHANGED <<current_tid, idle_tid, held, TID_COUNTER, tasks,
                           ready_queues, finished_tasks, pc, old_id, next, exited>>
       ELSE Panic("panic: unable to block task")

\* block_current_task
BlockCurrentTask ==
    /\ pc = "run"
    /\ CanLock({"tasks"})
    /\ IF current_tid \in tasks /\ heap[current_tid].status = TaskRunning
       THEN /\ heap' = [heap EXCEPT ![current_tid].status = TaskBlocked]
            /\ UNCHANGED <<current_tid, idle_tid, held, TID_COUNTER, tasks, ready_queues,
                           finished_tasks, pc, old_id, next, exited>>
       ELSE Panic("panic: unable to block task")

\* wakeup_task without the test for TaskBlocked
WakeupAnyStatus(task) ==
    /\ heap' = [heap EXCEPT ![task].status = TaskReady]
    /\ ready_queues' = [ready_queues EXCEPT ![heap[task].prio] = PushBack(@, task)]

\* what wakeup_task does to the TCBs and the ready queues
WakeupEffect(task) ==
    IF heap[task].status = TaskBlocked
    THEN /\ heap' = [heap EXCEPT ![task].status = TaskReady]
         /\ ready_queues' =
                [ready_queues EXCEPT ![heap[task].prio] = PushBack(@, task)]
    ELSE UNCHANGED <<heap, ready_queues>>

\* wakeup_task(task), from the running task or from an interrupt handler.
\* Interrupts are masked inside schedule; a wakeup that arrives between the
\* call of reschedule and schedule commutes with cleanup_tasks.
WakeupTask(task) ==
    /\ pc = "run"
    /\ task \in tasks
    /\ Queued(ready_queues) < MaxQueued
    /\ CanLock({"ready_queues"})
    /\ WakeupEffect(task)
    /\ UNCHANGED <<current_tid, idle_tid, held, TID_COUNTER, tasks, finished_tasks,
                   pc, old_id, next, exited>>

\* reschedule is entered
Reschedule ==
    /\ pc = "run"
    /\ pc' = "cleanup"
    /\ UNCHANGED <<current_tid, idle_tid, held, TID_COUNTER, tasks, heap, ready_queues,
                   finished_tasks, old_id, next, exited>>

\* cleanup_tasks that takes the id off the queue and keeps the TCB
CleanupKeepsTcb ==
    /\ pc = "cleanup"
    /\ CanLock(IF finished_tasks # <<>> THEN {"finished_tasks", "tasks"}
               ELSE {"finished_tasks"})
    /\ pc' = "schedule"
    /\ IF finished_tasks # <<>>
       THEN finished_tasks' = PopFront(finished_tasks)
       ELSE UNCHANGED finished_tasks
    /\ UNCHANGED <<current_tid, idle_tid, held, TID_COUNTER, tasks, heap, ready_queues,
                   old_id, next, exited>>

\* cleanup_tasks that drops the TCB of the front id and leaves the id queued
CleanupPeeks ==
    /\ pc = "cleanup"
    /\ CanLock(IF finished_tasks # <<>> THEN {"finished_tasks", "tasks"}
               ELSE {"finished_tasks"})
    /\ pc' = "schedule"
    /\ IF finished_tasks # <<>>
       THEN /\ tasks' = tasks \ {Front(finished_tasks)}
            /\ heap' = IF Front(finished_tasks) \in tasks
                       THEN [heap EXCEPT ![Front(finished_tasks)] = NoTask]
                       ELSE heap
            /\ exited' = exited \ {Front(finished_tasks)}
       ELSE UNCHANGED <<tasks, heap, exited>>
    /\ UNCHANGED <<current_tid, idle_tid, held, TID_COUNTER, ready_queues,
                   finished_tasks, old_id, next>>

\* cleanup_tasks: at most one finished TCB is dropped
CleanupTasks ==
    /\ pc = "cleanup"
    /\ CanLock(IF finished_tasks # <<>> THEN {"finished_tasks", "tasks"}
               ELSE {"finished_tasks"})
    /\ pc' = "schedule"
    /\ IF finished_tasks # <<>>
       THEN /\ finished_tasks' = PopFront(finished_tasks)
            /\ tasks' = tasks \ {Front(finished_tasks)}
            /\ heap' = IF Front(finished_tasks) \in tasks
                       THEN [heap EXCEPT ![Front(finished_tasks)] = NoTask]
                       ELSE heap
            /\ exited' = exited \ {Front(finished_tasks)}
       ELSE UNCHANGED <<finished_tasks, tasks, heap, exited>>
    /\ UNCHANGED <<current_tid, idle_tid, held, TID_COUNTER, ready_queues,
                   old_id, next>>

\* ScanLimit without the restriction to the level of a Running caller
ScanAllLevels(task) == NO_PRIORITIES

\* get_next_task: the number of levels it scans
ScanLimit(task) ==
    IF task.status = TaskRunning THEN task.prio + 1 ELSE NO_PRIORITIES

\* the levels below limit whose queue is not empty
Candidates(limit) == {i \in 0 .. (limit - 1) : ready_queues[i] # <<>>}

\* PickLevel scanning from the worst level
PickWorstLevel(levels) == CHOOSE i \in levels : \A j \in levels : i >= j

\* the level get_next_task pops from
PickLevel(levels) == CHOOSE i \in levels : \A j \in levels : i <= j

\* get_next_task, called by schedule (which first notes old_id)
GetNextTask ==
    /\ pc = "schedule"
    /\ CanLock({"tasks", "ready_queues"})
    /\ IF current_tid \notin tasks
       THEN Panic("panic: unwrap on None")
       ELSE LET status == heap[current_tid].status
                levels == Candidates(ScanLimit(heap[current_tid]))
            IN  /\ old_id' = current_tid
                /\ IF levels # {}
                   THEN LET i == PickLevel(levels)
                            task == Front(ready_queues[i])
                        IN  /\ ready_queues' =
                                   [ready_queues EXCEPT ![i] = PopFront(@)]
                            /\ \/ /\ heap' = IF task \in tasks
                                             THEN [heap EXCEPT ![task].status = TaskRunning]
                                             ELSE heap
                                  /\ next' = [kind |-> "queue", id |-> task, level |-> i]
                                  /\ pc' = "picked"
                               \/ \* the popped pointer is dangling: the write may fault
                                  /\ task \notin tasks
                                  /\ pc' = "fault"
                                  /\ UNCHANGED <<heap, next>>
                   ELSE /\ next' = IF status # TaskRunning
                                   THEN [kind |-> "idle", id |-> idle_tid, level |-> 0]
                                   ELSE NoNext
                        /\ pc' = "picked"
                        /\ UNCHANGED <<heap, ready_queues>>
                /\ UNCHANGED <<current_tid, idle_tid, held, TID_COUNTER, tasks,
                               finished_tasks, exited>>

\* Outgoing with the demotion of a still-Running outgoing task left out
OutgoingKeepsRunning(id) ==
    IF heap[id].status = TaskRunning
    THEN /\ ready_queues' = [ready_queues EXCEPT ![heap[id].prio] = PushBack(@, id)]
         /\ UNCHANGED <<heap, finished_tasks, tasks>>
    ELSE IF heap[id].status = TaskFinished
    THEN /\ heap' = [heap EXCEPT ![id].status = TaskInvalid]
         /\ finished_tasks' = PushBack(finished_tasks, id)
         /\ UNCHANGED <<ready_queues, tasks>>
    ELSE UNCHANGED <<heap, ready_queues, finished_tasks, tasks>>

\* Outgoing with the re-enqueueing of a still-Running outgoing task left out
OutgoingNoRequeue(id) ==
    IF heap[id].status = TaskRunning
    THEN /\ heap' = [heap EXCEPT ![id].status = TaskReady]
         /\ UNCHANGED <<ready_queues, finished_tasks, tasks>>
    ELSE IF heap[id].status = TaskFinished
    THEN /\ heap' = [heap EXCEPT ![id].status = TaskInvalid]
         /\ finished_tasks' = PushBack(finished_tasks, id)
         /\ UNCHANGED <<ready_queues, tasks>>
    ELSE UNCHANGED <<heap, ready_queues, finished_tasks, tasks>>

\* Outgoing with a finished task dropped at once instead of queued
OutgoingDropsAtOnce(id) ==
    IF heap[id].status = TaskRunning
    THEN /\ heap' = [heap EXCEPT ![id].status = TaskReady]
         /\ ready_queues' = [ready_queues EXCEPT ![heap[id].prio] = PushBack(@, id)]
         /\ UNCHANGED <<finished_tasks, tasks>>
    ELSE IF heap[id].status = TaskFinished
    THEN /\ heap' = [heap EXCEPT ![id] = NoTask]
         /\ tasks' = tasks \ {id}
         /\ UNCHANGED <<ready_queues, finished_tasks>>
    ELSE UNCHANGED <<heap, ready_queues, finished_tasks, tasks>>

\* the locks schedule takes for the outgoing task
OutgoingLocks(id) ==
    {"tasks"} \cup (IF heap[id].status = TaskRunning THEN {"ready_queues"}
                    ELSE IF heap[id].status = TaskFinished THEN {"finished_tasks"}
                    ELSE {})

\* the guard of the registry kept alive until schedule returns
GuardKeptAcrossSwitch == {"tasks"}

\* the guards of schedule that are alive when it calls switch: the guard of
\* the registry is local to the block that ends before the call, the other
\* two are temporaries of one statement
GuardsAtSwitch == {}

\* schedule: what it does to the outgoing task before the switch
Outgoing(id) ==
    IF heap[id].status = TaskRunning
    THEN /\ heap' = [heap EXCEPT ![id].status = TaskReady]
         /\ ready_queues' = [ready_queues EXCEPT ![heap[id].prio] = PushBack(@, id)]
         /\ UNCHANGED <<finished_tasks, tasks>>
    ELSE IF heap[id].status = TaskFinished
    THEN /\ heap' = [heap EXCEPT ![id].status = TaskInvalid]
         /\ finished_tasks' = PushBack(finished_tasks, id)
         /\ UNCHANGED <<ready_queues, tasks>>
    ELSE UNCHANGED <<heap, ready_queues, finished_tasks, tasks>>

\* schedule, from the return of get_next_task up to the call of switch
Schedule ==
    /\ pc = "picked"
    /\ current_tid' = IF next.kind = "none" THEN current_tid ELSE next.id
    /\ IF old_id # current_tid'
       THEN /\ CanLock(OutgoingLocks(old_id))
            /\ Outgoing(old_id)
            /\ held' = held \cup GuardsAtSwitch
            /\ pc' = "switch"
            /\ UNCHANGED <<old_id, next>>
       ELSE /\ pc' = "run"
            /\ old_id' = 0
            /\ next' = NoNext
            /\ UNCHANGED <<heap, ready_queues, finished_tasks, tasks, held>>
    /\ UNCHANGED <<idle_tid, TID_COUNTER, exited>>

\* switch(old_stack_pointer, new_stack_pointer): the outgoing context is
\* saved in the outgoing TCB and the CPU continues on the incoming stack
Switch ==
    /\ pc = "switch"
    /\ heap' = [heap EXCEPT ![old_id].last_stack_pointer = SavedContext]
    /\ pc' = "run"
    /\ old_id' = 0
    /\ next' = NoNext
    /\ UNCHANGED <<current_tid, idle_tid, held, TID_COUNTER, tasks, ready_queues,
                   finished_tasks, exited>>

Next ==
    \/ \E prio \in Priorities : Spawn(prio)
    \/ Exit
    \/ BlockCurrentTask
    \/ \E task \in TaskIds : WakeupTask(task)
    \/ Reschedule
    \/ CleanupTasks
    \/ GetNextTask
    \/ Schedule
    \/ Switch

Spec == Init /\ [][Next]_vars

\* The scenario of equal-priority round robin: the idle task spawns tasks at
\* one level before it first gives up the CPU, and from then on whichever
\* task is current calls reschedule; nothing blocks or exits.
FifoSpawn(prio) ==
    /\ pc = "run"
    /\ current_tid = idle_tid
    /\ heap[idle_tid].last_stack_pointer = NullSp
    /\ finished_tasks = <<>>
    /\ CanLock({"finished_tasks", "tasks", "ready_queues"})
    /\ Cardinality(tasks) < TidModulus
    /\ \A t \in tasks \ {idle_tid} : heap[t].prio = prio
    /\ SpawnFresh(prio)
    /\ UNCHANGED <<current_tid, idle_tid, held, old_id, next>>

NextFifo ==
    \/ \E prio \in Priorities : FifoSpawn(prio)
    \/ Reschedule
    \/ CleanupTasks
    \/ GetNextTask
    \/ Schedule
    \/ Switch

SpecFifo == Init /\ [][NextFifo]_vars

\* The scheduler under the assumption that whichever task is on the CPU
\* calls reschedule again, and that a reschedule once entered runs to its end
\* (cleanup_tasks, get_next_task, schedule and switch are straight-line code
\* with interrupts masked inside schedule).
SpecLive ==
    /\ Init
    /\ [][Next]_vars
    /\ WF_vars(Reschedule)
    /\ WF_vars(CleanupTasks)
    /\ WF_vars(GetNextTask)
    /\ WF_vars(Schedule)
    /\ WF_vars(Switch)

\* the states in which the kernel has halted
Panics == {"panic: unable to terminate idle task", "panic: unable to block task",
           "panic: unwrap on None", "panic: didn't find task"}

\* the task whose stack the CPU executes on: current_tid, except between the
\* update of current_tid in schedule and the switch
CpuTask == IF pc = "switch" THEN old_id ELSE current_tid

\* ---------------------------------------------------------------- typing
TypeOK ==
    /\ current_tid \in TaskIds
    /\ tasks \subseteq TaskIds
    /\ TID_COUNTER \in TaskIds
    /\ pc \in {"run", "cleanup", "schedule", "picked", "switch", "fault"} \cup Panics
    /\ Cardinality(tasks) <= MaxTasks
    /\ Queued(ready_queues) <= MaxQueued
    /\ held \subseteq Locks

\* ---------------------------------------------------------------- claims
RunningTasks == {t \in tasks : heap[t].status = TaskRunning}

\* entries of all ready queues together that are equal to id
RECURSIVE CountUpTo(_, _, _)
CountUpTo(queues, level, id) ==
    IF level < 0 THEN 0
    ELSE Count(queues[level], id) + CountUpTo(queues, level - 1, id)

Enqueued(id) == CountUpTo(ready_queues, NO_PRIORITIES - 1, id)

\* C1 as claimed: in every reachable state, the states inside schedule
\* included, at most one registered TCB has status Running.
C1_AtMostOneRunningAlways == Cardinality(RunningTasks) <= 1

\* C1 amended: at most one registered TCB has status Running in every state
\* but those between the return of get_next_task and schedule's update of
\* the outgoing task; there, at most the incoming and the outgoing task have.
C1_AtMostOneRunning ==
    /\ pc # "picked" => Cardinality(RunningTasks) <= 1
    /\ pc = "picked" => RunningTasks \subseteq {old_id, next.id}

\* a task was preempted by another: it is Ready again and the other Running
C1_Witness ==
    /\ pc = "run"
    /\ heap[current_tid].status = TaskRunning
    /\ \E t \in tasks \ {current_tid} :
          /\ heap[t].status = TaskReady
          /\ heap[t].last_stack_pointer = SavedContext

\* C2 as claimed: a TCB is in the ready queues at most once, in the queue of
\* its own priority, and only while it is registered with status Ready.
C2_ReadyQueueMembership ==
    \A id \in TaskIds :
        /\ Enqueued(id) <= 1
        /\ \A p \in Priorities :
              Count(ready_queues[p], id) > 0 =>
                  /\ id \in tasks
                  /\ heap[id].status = TaskReady
                  /\ heap[id].prio = p

\* C3: a step that drops a TCB or takes an id from the finished queue never
\* takes the task the CPU executes on, and never takes it within the
\* schedule that queued it.
C3_NoPrematureReclamation ==
    [][/\ \A id \in tasks \ tasks' : id # CpuTask /\ pc = "cleanup"
       /\ Len(finished_tasks') < Len(finished_tasks) =>
              /\ Front(finished_tasks) # CpuTask
              /\ pc \in {"run", "cleanup"}
              /\ heap[Front(finished_tasks)].last_stack_pointer = SavedContext]_vars

\* a finished TCB was dropped by a later reschedule of another task
C3_Witness ==
    /\ pc = "schedule"
    /\ current_tid # idle_tid
    /\ finished_tasks = <<>>
    /\ \E id \in TaskIds \ tasks :
          /\ id < TID_COUNTER
          /\ \A t \in tasks : t < TID_COUNTER

\* C4: when get_next_task has taken a task from the queue of a level, the
\* queues of all better levels are empty and no Ready task has a better level.
C4_PriorityPrecedence ==
    (pc = "picked" /\ next.kind = "queue") =>
        /\ \A j \in Priorities : j < next.level => ready_queues[j] = <<>>
        /\ \A t \in tasks :
              heap[t].status = TaskReady => heap[t].prio >= next.level

\* a task was taken while an older Ready task waits at a worse level
C4_Witness ==
    /\ pc = "picked"
    /\ next.kind = "queue"
    /\ \E t \in tasks :
          /\ heap[t].status = TaskReady
          /\ heap[t].prio > next.level
          /\ t < next.id
          /\ next.id < TID_COUNTER

\* C5: with tasks 1 .. n spawned in this order at one level by the idle task
\* and nothing but reschedule called afterwards, the task taken after the
\* idle task is 1 and the task taken after task k is k + 1, or 1 after n;
\* the outgoing task, still Running, is put at the tail of its level.
C5_FifoFairness ==
    LET n == Cardinality(tasks) - 1
    IN  /\ (pc = "picked" /\ next.kind = "queue") =>
               next.id = IF old_id = idle_tid THEN 1 ELSE (old_id % n) + 1
        /\ (pc = "picked" /\ current_tid # idle_tid /\ n >= 2) =>
               next.kind = "queue"
        /\ (pc = "switch" /\ old_id # idle_tid) =>
               LET q == ready_queues[heap[old_id].prio]
               IN  /\ heap[old_id].status = TaskReady
                   /\ q # <<>>
                   /\ q[Len(q)] = old_id

\* three tasks, in the second round: task 1 is taken again after task 3
C5_Witness ==
    /\ pc = "picked"
    /\ Cardinality(tasks) = 4
    /\ old_id = 3
    /\ next.id = 1
    /\ heap[1].last_stack_pointer = SavedContext

\* C6 as claimed: a task that called exit does not run on as the current
\* task (its exit does not return) while its TCB is neither dropped nor
\* reused.
C6_ExitNeverReturns == pc = "run" => current_tid \notin exited

\* the idle task is Idle, in no ready queue and not in the finished queue
IdleUntouched ==
    /\ idle_tid \in tasks
    /\ heap[idle_tid].status = TaskIdle
    /\ Enqueued(idle_tid) = 0
    /\ Count(finished_tasks, idle_tid) = 0

\* C7: the idle task stays Idle and out of every queue, and exit called
\* while the idle task is current halts the kernel with no TCB changed.
C7_IdleInvariant ==
    /\ IdleUntouched
    /\ [][/\ IdleUntouched'
          /\ (Exit /\ current_tid = idle_tid) =>
                 /\ pc' = "panic: unable to terminate idle task"
                 /\ heap' = heap]_vars

\* the idle task called exit
C7_Witness ==
    /\ pc = "panic: unable to terminate idle task"
    /\ current_tid = idle_tid
    /\ heap[idle_tid].status = TaskIdle
    /\ Cardinality(tasks) >= 2

\* C8: a spawn that finds the finished queue empty registers a key that was
\* not registered before, and changes no TCB that was.
C8_TaskIdUnique ==
    [][\A prio \in Priorities :
          (Spawn(prio) /\ finished_tasks = <<>>) =>
              /\ Cardinality(tasks') = Cardinality(tasks) + 1
              /\ \A t \in tasks : heap'[t] = heap[t]]_vars

\* the counter has wrapped around and passed the idle task's id since:
\* a task is registered under an id the counter has yet to reach again
C8_Witness ==
    /\ TID_COUNTER >= 2
    /\ \E t \in tasks : t >= TID_COUNTER
    /\ \E t \in tasks \ {idle_tid} : t < TID_COUNTER

\* C9 as claimed: a spawn that finds the finished queue non-empty leaves the
\* popped TCB Ready at the given priority with a fresh entry frame, once in
\* the ready queue of that level and nowhere else in the ready queues, out
\* of the finished queue, and the registry keys as they were.
C9_ReuseCorrect ==
    [][\A prio \in Priorities :
          (Spawn(prio) /\ finished_tasks # <<>>) =>
              LET id == Front(finished_tasks)
              IN  /\ heap'[id] = [status |-> TaskReady, prio |-> prio,
                                  last_stack_pointer |-> EntryFrame]
                  /\ Count(ready_queues'[prio], id) = 1
                  /\ Count(finished_tasks', id) = 0
                  /\ tasks' = tasks]_vars

\* C10: wakeup_task on a TCB that is not Blocked changes nothing; on a
\* Blocked TCB it adds one entry to the queue of its level and leaves it
\* Ready, so that a second wakeup changes nothing.
C10_WakeupIdempotent ==
    [][\A task \in TaskIds :
          WakeupTask(task) =>
              IF heap[task].status # TaskBlocked
              THEN UNCHANGED vars
              ELSE /\ heap'[task].status = TaskReady
                   /\ Enqueued(task)' = Enqueued(task) + 1
                   /\ \A t \in TaskIds \ {task} :
                         heap'[t] = heap[t] /\ Enqueued(t)' = Enqueued(t)]_vars

\* the current task was woken between its block and its reschedule, and is
\* queued once
C10_Witness ==
    /\ pc = "run"
    /\ current_tid # idle_tid
    /\ heap[current_tid].status = TaskReady
    /\ Enqueued(current_tid) = 1

\* an id is in the finished queue at most once
FinishedOnce == \A id \in TaskIds : Count(finished_tasks, id) <= 1

\* C11 as claimed: an id is in the finished queue at most once, and every
\* id that leaves the queue leaves it in a cleanup pass that removes its TCB
\* from the registry, whatever is called in between.
C11_DroppedByFirstCleanup ==
    /\ FinishedOnce
    /\ [][/\ FinishedOnce'
          /\ \A id \in TaskIds :
                (Count(finished_tasks, id) > 0 /\ Count(finished_tasks', id) = 0) =>
                    /\ pc = "cleanup"
                    /\ id \in tasks
                    /\ id \notin tasks']_vars

\* C11 amended: an id is in the finished queue at most once; it leaves the
\* queue either in the reuse path of a spawn, which keeps its TCB registered
\* and makes it Ready, or in a cleanup pass, which removes its TCB from the
\* registry and empties its slot; and a cleanup pass leaves the queue empty,
\* so that an id not reused is dropped by the first pass after its insertion.
C11_DroppedOrReused ==
    /\ FinishedOnce
    /\ [][/\ FinishedOnce'
          /\ \A id \in TaskIds :
                (Count(finished_tasks, id) > 0 /\ Count(finished_tasks', id) = 0) =>
                    \/ /\ pc = "cleanup"
                       /\ id \in tasks
                       /\ id \notin tasks'
                       /\ heap'[id] = NoTask
                    \/ /\ pc = "run"
                       /\ \E prio \in Priorities : Spawn(prio)
                       /\ id \in tasks'
                       /\ heap'[id].status = TaskReady
          /\ pc = "cleanup" => finished_tasks' = <<>>
          /\ \A id \in tasks \ tasks' : Count(finished_tasks, id) = 1]_vars

\* the idle task's reschedule has dropped the TCB of a task that exited
C11_Witness ==
    /\ pc = "schedule"
    /\ current_tid = idle_tid
    /\ finished_tasks = <<>>
    /\ \E id \in TaskIds \ tasks :
          /\ id < TID_COUNTER
          /\ \A t \in tasks : t < TID_COUNTER

\* the state of the scheduler in the lifecycle of the first task: the idle
\* task 0 (saved stack pointer sp0) and task 1 (TCB t1, NoTask once dropped)
LifecycleState(cur, p, reg, t1, sp0, q, fin, ex, old, nx) ==
    /\ current_tid = cur
    /\ pc = p
    /\ tasks = reg
    /\ idle_tid = 0
    /\ TID_COUNTER = 2
    /\ heap = [id \in TaskIds |->
                 IF id = 0
                 THEN [status |-> TaskIdle, prio |-> LOW_PRIO,
                       last_stack_pointer |-> sp0]
                 ELSE IF id = 1 THEN t1 ELSE NoTask]
    /\ ready_queues = [l \in Priorities |-> IF l = NORMAL_PRIO THEN q ELSE <<>>]
    /\ finished_tasks = fin
    /\ exited = ex
    /\ old_id = old
    /\ next = nx
    /\ held = {}

\* the TCB of task 1 in the lifecycle
FirstTask(status, sp) ==
    [status |-> status, prio |-> NORMAL_PRIO, last_stack_pointer |-> sp]

\* the stages of the lifecycle, one per step of the scheduler
Spawned ==
    LifecycleState(0, "run", {0, 1}, FirstTask(TaskReady, EntryFrame), NullSp,
                   <<1>>, <<>>, {}, 0, NoNext)
FirstCleanup ==
    LifecycleState(0, "cleanup", {0, 1}, FirstTask(TaskReady, EntryFrame), NullSp,
                   <<1>>, <<>>, {}, 0, NoNext)
FirstSchedule ==
    LifecycleState(0, "schedule", {0, 1}, FirstTask(TaskReady, EntryFrame), NullSp,
                   <<1>>, <<>>, {}, 0, NoNext)
FirstPicked ==
    LifecycleState(0, "picked", {0, 1}, FirstTask(TaskRunning, EntryFrame), NullSp,
                   <<>>, <<>>, {}, 0,
                   [kind |-> "queue", id |-> 1, level |-> NORMAL_PRIO])
FirstSwitch ==
    LifecycleState(1, "switch", {0, 1}, FirstTask(TaskRunning, EntryFrame), NullSp,
                   <<>>, <<>>, {}, 0,
                   [kind |-> "queue", id |-> 1, level |-> NORMAL_PRIO])
FirstRuns ==
    LifecycleState(1, "run", {0, 1}, FirstTask(TaskRunning, EntryFrame),
                   SavedContext, <<>>, <<>>, {}, 0, NoNext)
ExitCleanup ==
    LifecycleState(1, "cleanup", {0, 1}, FirstTask(TaskFinished, EntryFrame),
                   SavedContext, <<>>, <<>>, {1}, 0, NoNext)
ExitSchedule ==
    LifecycleState(1, "schedule", {0, 1}, FirstTask(TaskFinished, EntryFrame),
                   SavedContext, <<>>, <<>>, {1}, 0, NoNext)
ExitPicked ==
    LifecycleState(1, "picked", {0, 1}, FirstTask(TaskFinished, EntryFrame),
                   SavedContext, <<>>, <<>>, {1}, 1,
                   [kind |-> "idle", id |-> 0, level |-> 0])
ExitSwitch ==
    LifecycleState(0, "switch", {0, 1}, FirstTask(TaskInvalid, EntryFrame),
                   SavedContext, <<>>, <<1>>, {1}, 1,
                   [kind |-> "idle", id |-> 0, level |-> 0])
IdleAgain ==
    LifecycleState(0, "run", {0, 1}, FirstTask(TaskInvalid, SavedContext),
                   SavedContext, <<>>, <<1>>, {1}, 0, NoNext)
LastCleanup ==
    LifecycleState(0, "cleanup", {0, 1}, FirstTask(TaskInvalid, SavedContext),
                   SavedContext, <<>>, <<1>>, {1}, 0, NoNext)
Reclaimed ==
    LifecycleState(0, "schedule", {0}, NoTask, SavedContext, <<>>, <<>>, {}, 0,
                   NoNext)

\* C12: after init (idle task 0 at the lowest level, current), the first
\* spawn at NORMAL_PRIO returns id 1 and queues it; the first reschedule
\* switches from the idle task to task 1; the reschedule inside task 1's
\* exit switches back to the idle task with task 1 still registered, Invalid
\* and in the finished queue; the next reschedule removes the TCB of task 1
\* from the registry.
C12_Lifecycle ==
    [][/\ (Init /\ Spawn(NORMAL_PRIO)) => Spawned'
       /\ (Init /\ Spawn(NORMAL_PRIO)) =>
              heap[idle_tid] = NewTask(TaskIdle, LOW_PRIO)
       /\ (Spawned /\ Reschedule) => FirstCleanup'
       /\ FirstCleanup => FirstSchedule'
       /\ FirstSchedule => FirstPicked'
       /\ FirstPicked => FirstSwitch'
       /\ FirstSwitch => FirstRuns'
       /\ (FirstRuns /\ Exit) => ExitCleanup'
       /\ ExitCleanup => ExitSchedule'
       /\ ExitSchedule => ExitPicked'
       /\ ExitPicked => ExitSwitch'
       /\ ExitSwitch => IdleAgain'
       /\ (IdleAgain /\ Reschedule) => LastCleanup'
       /\ LastCleanup => Reclaimed']_vars

\* the lifecycle has run to its end: the TCB of task 1 is gone
C12_Witness == Reclaimed

\* the levels 0 .. p hold no entry
EmptyUpTo(p) == \A i \in 0 .. p : ready_queues[i] = <<>>

\* C13: when the current task is Running at level p, get_next_task takes a
\* task only from the queues of levels 0 .. p and leaves the queues of the
\* levels above p as they are; when the queues 0 .. p are all empty it
\* returns nothing, and the reschedule ends without a switch, with
\* current_tid, every TCB (the current one still Running) and every ready
\* queue unchanged, whatever waits at the levels above p.
C13_RestrictedPreemption ==
    [][/\ (/\ pc = "schedule"
           /\ current_tid \in tasks
           /\ heap[current_tid].status = TaskRunning) =>
              LET p == heap[current_tid].prio
              IN  /\ current_tid' = current_tid
                  /\ next'.kind = "queue" => next'.level <= p
                  /\ \A i \in Priorities : i > p => ready_queues'[i] = ready_queues[i]
                  /\ EmptyUpTo(p) =>
                        /\ pc' = "picked"
                        /\ next' = NoNext
                        /\ heap' = heap
                        /\ ready_queues' = ready_queues
       /\ (pc = "picked" /\ next.kind = "none") =>
              /\ heap[current_tid].status = TaskRunning
              /\ pc' = "run"
              /\ current_tid' = current_tid
              /\ heap' = heap
              /\ ready_queues' = ready_queues]_vars

\* a Running task's reschedule found nothing at its own level or better
\* while a Ready task waits at a worse level
C13_Witness ==
    /\ pc = "picked"
    /\ next.kind = "none"
    /\ heap[current_tid].status = TaskRunning
    /\ \E t \in tasks :
          /\ heap[t].status = TaskReady
          /\ heap[t].prio > heap[current_tid].prio
          /\ Count(ready_queues[heap[t].prio], t) = 1

\* every ready queue is empty
AllEmpty == \A i \in Priorities : ready_queues[i] = <<>>

\* the status of a task as the scheduler knows it: the one in its TCB, and
\* TaskInvalid (slot not in use) for an id whose TCB has been dropped
TcbStatus(id) == IF id \in tasks THEN heap[id].status ELSE TaskInvalid

\* C14: a reschedule of a current task that is not Running, with every
\* ready queue empty, selects the idle task, which becomes current with
\* status Idle; and no reschedule ends with a current task that is Blocked,
\* Finished or Invalid.
C14_IdleFallback ==
    [][/\ (/\ pc = "schedule"
           /\ current_tid \in tasks
           /\ heap[current_tid].status # TaskRunning
           /\ AllEmpty) =>
              /\ pc' = "picked"
              /\ next' = [kind |-> "idle", id |-> idle_tid, level |-> 0]
              /\ heap' = heap
       /\ (pc = "picked" /\ next.kind = "idle") =>
              /\ current_tid' = idle_tid
              /\ heap'[idle_tid].status = TaskIdle
       /\ (pc \in {"picked", "switch"} /\ pc' = "run") =>
              TcbStatus(current_tid)' \notin
                  {TaskBlocked, TaskFinished, TaskInvalid}]_vars

C16_BlockOnlyRunning ==
    [][/\ BlockCurrentTask =>
            IF current_tid \in tasks /\ heap[current_tid].status = TaskRunning
            THEN /\ heap' = [heap EXCEPT ![current_tid].status = TaskBlocked]
                 /\ UNCHANGED <<current_tid, idle_tid, TID_COUNTER, tasks,
                                ready_queues, finished_tasks, pc, old_id, next>>
            ELSE /\ pc' = "panic: unable to block task"
                 /\ UNCHANGED <<current_tid, idle_tid, TID_COUNTER, tasks, heap,
                                ready_queues, finished_tasks, old_id, next>>
       /\ \A t \in TaskIds :
            (heap[t].status # TaskBlocked /\ heap'[t].status = TaskBlocked) =>
                /\ t = current_tid
                /\ t \in tasks
                /\ heap[t].status = TaskRunning
                /\ pc = "run"
                /\ pc' = "run"
       /\ (pc = "run" /\ pc' = "panic: unable to block task") =>
            ~(current_tid \in tasks /\ heap[current_tid].status = TaskRunning)]_vars

\* the kernel has halted on a block_current_task of a task that an early
\* wakeup had made Ready
C16_Witness ==
    /\ pc = "panic: unable to block task"
    /\ current_tid \in tasks
    /\ heap[current_tid].status = TaskReady

\* task t is registered, Ready and of level p, and waits for the CPU
ReadyAt(t, p) ==
    /\ t \in tasks
    /\ t # current_tid
    /\ heap[t].status = TaskReady
    /\ heap[t].prio = p

\* task t has been dispatched: it is the current task and Running
Dispatched(t) ==
    /\ current_tid = t
    /\ t \in tasks
    /\ heap[t].status = TaskRunning

\* some task of a level better than p is Ready
BetterReady(p) ==
    \E u \in tasks : heap[u].prio < p /\ heap[u].status = TaskReady

\* some task of a level better than p is Ready or Running
BetterRunnable(p) ==
    \E u \in tasks :
        heap[u].prio < p /\ heap[u].status \in {TaskReady, TaskRunning}

\* the kernel has halted: no task calls reschedule any more
Halted == pc \in Panics \cup {"fault"}

\* C17 as claimed: while the tasks keep calling reschedule, a task that is
\* Ready at level p is eventually dispatched, unless a task of a better
\* level is Ready again and again.
C17_NoStarvation ==
    \A t \in TaskIds : \A p \in Priorities :
        ReadyAt(t, p) ~> (Dispatched(t) \/ BetterReady(p) \/ Halted)

\* C17 amended: while the tasks keep calling reschedule, a task that is
\* Ready at level p is eventually dispatched, unless a task of a better
\* level is Ready or Running again and again.
C17_NoStarvationUnlessBetterRuns ==
    \A t \in TaskIds : \A p \in Priorities :
        ReadyAt(t, p) ~> (Dispatched(t) \/ BetterRunnable(p) \/ Halted)

\* the task taken from the queue of the worst level is being switched to
\* and is Running, nothing better is Ready or Running, and another task of
\* its level waits Ready for its turn
C17_Witness ==
    /\ pc = "switch"
    /\ next.kind = "queue"
    /\ Dispatched(next.id)
    /\ heap[next.id].prio = LOW_PRIO
    /\ ~BetterRunnable(LOW_PRIO)
    /\ \E u \in tasks : ReadyAt(u, LOW_PRIO)

\* C18: the finished queue never holds more than one id.
C18_AtMostOneFinished == Len(finished_tasks) <= 1

\* a task has exited and been switched away from; its id is the one entry
\* of the finished queue while another task runs
C18_Witness ==
    /\ pc = "run"
    /\ Len(finished_tasks) = 1
    /\ current_tid # Front(finished_tasks)
    /\ TcbStatus(Front(finished_tasks)) = TaskInvalid

\* C19: current_tid and idle_tid are keys of the registry, every entry of a
\* ready queue is the id of a registered TCB, and no lookup or dereference
\* of the scheduler fails.
C19_LookupsNeverFail ==
    /\ current_tid \in tasks
    /\ idle_tid \in tasks
    /\ \A i \in Priorities : \A k \in 1 .. Len(ready_queues[i]) :
          ready_queues[i][k] \in tasks
    /\ pc \notin {"fault", "panic: unwrap on None", "panic: didn't find task"}

\* C20 (state part): every id in the finished queue is a registered TCB
\* with status Invalid, is not the current task once the switch away from it
\* has been issued, and is in no ready queue.
C20_FinishedAreInvalidAndUnqueued ==
    \A k \in 1 .. Len(finished_tasks) :
        LET id == finished_tasks[k]
        IN  /\ id \in tasks
            /\ heap[id].status = TaskInvalid
            /\ pc # "switch" => id # current_tid
            /\ \A i \in Priorities : Count(ready_queues[i], id) = 0

====
